---- MODULE Spec2Model ----
(***************************************************************************)
(* Model of mlflow/tracing/utils/__init__.py: the span-name deduplicator,  *)
(* the trace JSON encoder's fallback chain, the identifier codec and its   *)
(* single-entry memo cache, the attribute decoder and the accessors of the *)
(* ambient prediction context.                                             *)
(*                                                                         *)
(* Each component is a state machine of its own (SpecDedup, SpecEncoder,   *)
(* SpecCodec, SpecCache, SpecAttr, SpecContext); the variables of the      *)
(* components a specification does not exercise stay at their idle value.  *)
(*                                                                         *)
(* Strings are sequences of one-character strings, so that concatenation,  *)
(* formatting and parsing are computed and not assumed.                    *)
(***************************************************************************)
EXTENDS Integers, Sequences, FiniteSets, TLC

VARIABLES
    \* deduplicate_span_names_in_place
    spans,              \* the current name of each span of the batch, in order
    original,           \* the names the batch had when the call started
    span_name_counter,  \* name -> next index, for the duplicated names
    idx,                \* position of the `for span in spans` loop
    dpc,                \* "start" | "loop" | "done"
    \* TraceJSONEncoder.default
    libs,               \* which optional libraries are installed, and versions
    obj,                \* what the encoded value is and how its methods behave
    epc,                \* the rule of the chain that runs next
    eresult,            \* what default() returned or raised
    \* encode_span_id / encode_trace_id / decode_id
    ident,              \* [fn, arg]: the codec called and its integer argument
    cpc,                \* "encode" | "decode" | "done"
    encoded,            \* the string the encoder returned
    decoded,            \* what decode_id made of it
    \* the lru_cache(maxsize=1) of the two encoders
    lru,                \* fn -> the cached entry [key, result], or NoEntry
    thr,                \* thread -> [pc, fn, arg, res]
    \* get_otel_attribute
    attributes,         \* the span's attribute map: key -> stored text
    key,                \* the key asked for
    apc,                \* "get" | "loads" | "except" | "done"
    aout,               \* [kind, val, exc, logged]
    \* maybe_get_request_id / maybe_get_dependencies_schemas
    context,            \* the ambient prediction context, or None
    pyfunc,             \* whether mlflow.pyfunc.context can be imported
    call,               \* [fn, is_evaluate]
    xpc,                \* "context" | "check" | "done"
    xout                \* [kind, val, ctx]

dedupVars == <<spans, original, span_name_counter, idx, dpc>>
encVars == <<libs, obj, epc, eresult>>
codecVars == <<ident, cpc, encoded, decoded>>
cacheVars == <<lru, thr>>
attrVars == <<attributes, key, apc, aout>>
ctxVars == <<context, pyfunc, call, xpc, xout>>
vars == <<dedupVars, encVars, codecVars, cacheVars, attrVars, ctxVars>>

\* Python's None.
None == "None"

(***************************************************************************)
(* Strings.                                                                *)
(***************************************************************************)
DecDigit(d) == <<"0", "1", "2", "3", "4", "5", "6", "7", "8", "9">>[d + 1]

\* str(n) for a non-negative integer n, as f"{count}" formats it.
RECURSIVE Str(_)
Str(n) == IF n < 10 THEN <<DecDigit(n)>>
          ELSE Str(n \div 10) \o <<DecDigit(n % 10)>>

(***************************************************************************)
(* deduplicate_span_names_in_place.                                        *)
(***************************************************************************)
MaxSpans == 3
MaxSuffix == 2

BaseNames == {<<"a">>, <<"b">>}

\* The names a span of the batch may carry: plain names, and names that
\* already look like an indexed name.
SpanNames == BaseNames \cup {n \o <<"_">> \o Str(k) : n \in BaseNames, k \in 1..MaxSuffix}

\* A batch is a list of distinct span objects (the spans of one trace), so each
\* position has a name of its own.
Batches == UNION {[1..n -> SpanNames] : n \in 0..MaxSpans}

\* Counter(span.name for span in spans)[name]
Count(names, name) == Cardinality({i \in DOMAIN names : names[i] = name})

\* {name: 1 for name, count in Counter(...).items() if count > 0}
AllNamesCounter(names) ==
    [name \in {names[i] : i \in DOMAIN names} |-> 1]

\* {name: 1 for name, count in Counter(...).items() if count > 1}
DuplicatedCounter(names) ==
    [name \in {names[i] : i \in {j \in DOMAIN names : Count(names, names[j]) > 1}} |-> 1]

\* f"{span.name}_{count - 1}"
ZeroBasedName(name, count) == name \o <<"_">> \o Str(count - 1)

\* f"{span.name}_{count}"
IndexedName(name, count) == name \o <<"_">> \o Str(count)

DedupIdle ==
    /\ spans = <<>>
    /\ original = <<>>
    /\ span_name_counter = <<>>
    /\ idx = 0
    /\ dpc = "idle"

InitDedupCall ==
    /\ spans \in Batches
    /\ original = spans
    /\ span_name_counter = <<>>
    /\ idx = 0
    /\ dpc = "start"

\* Lines 167-169: count the names and keep the duplicated ones, each at 1.
CountNames ==
    /\ dpc = "start"
    /\ span_name_counter' = DuplicatedCounter(spans)
    /\ idx' = 1
    /\ dpc' = "loop"
    /\ UNCHANGED <<spans, original>>

\* Lines 171-174: one iteration of the loop over the spans.
RenameSpan ==
    /\ dpc = "loop"
    /\ idx <= Len(spans)
    /\ IF spans[idx] \in DOMAIN span_name_counter
       THEN LET name == spans[idx]
                count == span_name_counter[name]
            IN /\ span_name_counter' = [span_name_counter EXCEPT ![name] = count + 1]
               /\ spans' = [spans EXCEPT ![idx] = IndexedName(name, count)]
       ELSE UNCHANGED <<spans, span_name_counter>>
    /\ idx' = idx + 1
    /\ UNCHANGED <<original, dpc>>

\* The loop is exhausted: the function returns.
DedupReturn ==
    /\ dpc = "loop"
    /\ idx > Len(spans)
    /\ dpc' = "done"
    /\ UNCHANGED <<spans, original, span_name_counter, idx>>

(***************************************************************************)
(* TraceJSONEncoder.default: the ordered fallback chain.                   *)
(***************************************************************************)
\* How obj.dict() / obj.model_dump() ends, and how dataclasses.asdict(obj) ends.
ExportOutcomes == {"ok", "ImportError", "TypeError", "ValueError"}
AsdictOutcomes == {"ok", "TypeError", "RecursionError"}

\* The optional libraries of the runtime. A version is only there with its library.
Libraries ==
    {l \in [langchain : BOOLEAN, langchain_legacy : BOOLEAN, pydantic_v1 : BOOLEAN,
            pydantic : BOOLEAN, pydantic_v2 : BOOLEAN, llama_index : BOOLEAN] :
        /\ l.langchain_legacy => l.langchain
        /\ l.pydantic_v2 => l.pydantic}

\* The encoded value: which of the probed types it is an instance of, and how its
\* export method and asdict end when called on it.
Objects ==
    {o \in [lc_model : BOOLEAN, pyd_model : BOOLEAN, dataclass : BOOLEAN, unsafe : BOOLEAN,
            export : ExportOutcomes, asdict : AsdictOutcomes] :
        /\ (~o.lc_model /\ ~o.pyd_model) => o.export = "ok"
        /\ ~o.dataclass => o.asdict = "ok"}

\* An instance of a library's type exists only where the library does.
Installed(l, o) ==
    /\ o.lc_model => (l.langchain /\ l.pydantic_v1)
    /\ o.pyd_model => l.pydantic
    /\ o.unsafe => l.llama_index

NoResult == [kind |-> "none", exc |-> None]
Returned(kind) == [kind |-> kind, exc |-> None]
Raised(exc) == [kind |-> "raise", exc |-> exc]

\* Lines 50-58: langchain imports, its version is below 0.3.0, the pydantic_v1
\* shim imports, and obj is an instance of its BaseModel.
IsLegacyLangChainModel(l, o) ==
    l.langchain /\ l.langchain_legacy /\ l.pydantic_v1 /\ o.lc_model

\* Lines 64-66: pydantic imports and obj is an instance of pydantic.BaseModel.
IsPydanticModel(l, o) == l.pydantic /\ o.pyd_model

\* Lines 60 and 72: `except ImportError` around the whole rule, the export call included.
ExportHandled(exc) == exc = "ImportError"

\* Line 81: `except TypeError` around asdict(obj).
AsdictHandled(exc) == exc = "TypeError"

\* The safety gate left out: every value is taken to be safe.
AlwaysSafeToEncodeStr(l, o) == TRUE

\* Lines 93-112: _is_safe_to_encode_str. Without llama_index the check is skipped.
IsSafeToEncodeStr(l, o) == ~(l.llama_index /\ o.unsafe)

EncoderIdle ==
    /\ libs = None
    /\ obj = None
    /\ epc = "idle"
    /\ eresult = NoResult

InitEncoderCall ==
    /\ libs \in Libraries
    /\ obj \in {o \in Objects : Installed(libs, o)}
    /\ epc = "langchain"
    /\ eresult = NoResult

\* Lines 49-61: rule 1, the legacy LangChain model.
LangChainRule ==
    /\ epc = "langchain"
    /\ IF IsLegacyLangChainModel(libs, obj)
       THEN IF obj.export = "ok"
            THEN eresult' = Returned("dict") /\ epc' = "done"
            ELSE IF ExportHandled(obj.export)
                 THEN eresult' = eresult /\ epc' = "pydantic"
                 ELSE eresult' = Raised(obj.export) /\ epc' = "done"
       ELSE eresult' = eresult /\ epc' = "pydantic"
    /\ UNCHANGED <<libs, obj>>

\* Lines 63-73: rule 2, the pydantic model, exported by the version's method.
PydanticRule ==
    /\ epc = "pydantic"
    /\ IF IsPydanticModel(libs, obj)
       THEN IF obj.export = "ok"
            THEN /\ eresult' = Returned(IF libs.pydantic_v2 THEN "model_dump" ELSE "dict")
                 /\ epc' = "done"
            ELSE IF ExportHandled(obj.export)
                 THEN eresult' = eresult /\ epc' = "dataclass"
                 ELSE eresult' = Raised(obj.export) /\ epc' = "done"
       ELSE eresult' = eresult /\ epc' = "dataclass"
    /\ UNCHANGED <<libs, obj>>

\* Lines 78-82: rule 3, the dataclass.
DataclassRule ==
    /\ epc = "dataclass"
    /\ IF obj.dataclass
       THEN IF obj.asdict = "ok"
            THEN eresult' = Returned("asdict") /\ epc' = "done"
            ELSE IF AsdictHandled(obj.asdict)
                 THEN eresult' = eresult /\ epc' = "gate"
                 ELSE eresult' = Raised(obj.asdict) /\ epc' = "done"
       ELSE eresult' = eresult /\ epc' = "gate"
    /\ UNCHANGED <<libs, obj>>

\* Lines 85-86: rule 4, the safety gate returns type(obj).
SafetyGate ==
    /\ epc = "gate"
    /\ IF IsSafeToEncodeStr(libs, obj)
       THEN eresult' = eresult /\ epc' = "super"
       ELSE eresult' = Returned("type") /\ epc' = "done"
    /\ UNCHANGED <<libs, obj>>

\* Lines 88-91: rule 5. json.JSONEncoder.default raises TypeError for every
\* value, so the handler returns str(obj).
StringFallback ==
    /\ epc = "super"
    /\ eresult' = Returned("str")
    /\ epc' = "done"
    /\ UNCHANGED <<libs, obj>>

(***************************************************************************)
(* encode_span_id / encode_trace_id / decode_id.                           *)
(*                                                                         *)
(* A Python integer is unbounded; an identifier is modelled as its         *)
(* canonical sequence of 16-bit limbs, most significant first, zero being  *)
(* the empty sequence. Each limb is four hexadecimal digits.               *)
(***************************************************************************)
SpanIdHexWidth == 16
TraceIdHexWidth == 32
MaxLimbSample == 1

HexChars == <<"0", "1", "2", "3", "4", "5", "6", "7", "8", "9", "a", "b", "c", "d", "e", "f">>
UpperHexChars == <<"0", "1", "2", "3", "4", "5", "6", "7", "8", "9", "A", "B", "C", "D", "E", "F">>

LimbBase == 16 * 16 * 16 * 16

LowerHexDigit(d) == HexChars[d + 1]

\* One digit of the "x" presentation type: lowercase.
HexDigit(d) == LowerHexDigit(d)

\* The four digits of one limb.
LimbHex(v) ==
    <<HexDigit(v \div (16 * 16 * 16)), HexDigit((v \div (16 * 16)) % 16),
      HexDigit((v \div 16) % 16), HexDigit(v % 16)>>

RECURSIVE LimbsHex(_)
LimbsHex(x) == IF x = <<>> THEN <<>> ELSE LimbHex(Head(x)) \o LimbsHex(Tail(x))

RECURSIVE StripLeading(_, _)
StripLeading(s, z) ==
    IF s # <<>> /\ Head(s) = z THEN StripLeading(Tail(s), z) ELSE s

\* format(x, "x"): the digits of x, no leading zero, "0" for zero.
Hex(x) == LET d == StripLeading(LimbsHex(x), "0") IN IF d = <<>> THEN <<"0">> ELSE d

\* The "0<width>" of the format specification: zeros on the left up to the
\* minimum width, nothing cut.
ZeroPad(s, width) ==
    IF Len(s) >= width THEN s ELSE [i \in 1..(width - Len(s)) |-> "0"] \o s

\* Padding that is one digit short.
ShortFormatHex(x, width) == ZeroPad(Hex(x), width - 1)

\* format(x, "0<width>x"), what trace_api.format_span_id / format_trace_id compute.
FormatHex(x, width) == ZeroPad(Hex(x), width)

\* Lines 115-121.
encode_span_id(span_id) == <<"0", "x">> \o FormatHex(span_id, SpanIdHexWidth)

\* Lines 124-129.
encode_trace_id(trace_id) == <<"0", "x">> \o FormatHex(trace_id, TraceIdHexWidth)

Encoder(fn, x) == IF fn = "span" THEN encode_span_id(x) ELSE encode_trace_id(x)

\* The value of a hexadecimal digit in either case, -1 for any other character.
HexValue(c) ==
    IF \E d \in 0..15 : HexChars[d + 1] = c \/ UpperHexChars[d + 1] = c
    THEN CHOOSE d \in 0..15 : HexChars[d + 1] = c \/ UpperHexChars[d + 1] = c
    ELSE -1

\* int(text, 16) accepts the base prefix.
HasHexPrefix(s) == Len(s) >= 2 /\ s[1] = "0" /\ s[2] \in {"x", "X"}

\* The digits [d1, ..., dn], most significant first, as canonical limbs.
RECURSIVE DigitsToLimbs(_)
DigitsToLimbs(d) ==
    IF d = <<>> THEN <<>>
    ELSE IF Len(d) % 4 # 0 THEN DigitsToLimbs(<<0>> \o d)
    ELSE <<((d[1] * 16 + d[2]) * 16 + d[3]) * 16 + d[4]>> \o DigitsToLimbs(SubSeq(d, 5, Len(d)))

ParseError == [ok |-> FALSE, val |-> <<>>]

\* The value of a string of hexadecimal digits; ValueError for the empty string
\* and for any other character.
ParseHexDigits(text) ==
    IF text = <<>> \/ \E i \in DOMAIN text : HexValue(text[i]) < 0
    THEN ParseError
    ELSE [ok |-> TRUE,
          val |-> StripLeading(DigitsToLimbs([i \in DOMAIN text |-> HexValue(text[i])]), 0)]

\* A parse that takes no base prefix: "0x..." is then no number.
DecodeWithoutPrefix(text) == ParseHexDigits(text)

\* Lines 132-136: int(span_or_trace_id, 16). It raises ValueError for a text
\* that is not hexadecimal.
decode_id(text) ==
    LET digits == IF HasHexPrefix(text) THEN SubSeq(text, 3, Len(text)) ELSE text
    IN ParseHexDigits(digits)

\* The limb values the identifiers are built from: zero, the largest limb, and
\* limbs whose own leading digit is zero.
LimbSamples == {0, LimbBase - 1} \cup {(k * 2591) % LimbBase : k \in 1..MaxLimbSample}

\* The non-negative integers below 2^(16 n) over the sample limbs.
IntsOfLimbs(n) ==
    UNION {{x \in [1..k -> LimbSamples] : k = 0 \/ x[1] # 0} : k \in 0..n}

SpanIds == IntsOfLimbs(SpanIdHexWidth \div Len(LimbHex(0)))
TraceIds == IntsOfLimbs(TraceIdHexWidth \div Len(LimbHex(0)))

CodecIdle ==
    /\ ident = None
    /\ cpc = "idle"
    /\ encoded = <<>>
    /\ decoded = ParseError

InitCodecCall ==
    /\ ident \in {[fn |-> "span", arg |-> x] : x \in SpanIds}
                 \cup {[fn |-> "trace", arg |-> x] : x \in TraceIds}
    /\ cpc = "encode"
    /\ encoded = <<>>
    /\ decoded = ParseError

\* The encoder of the identifier's kind is called on it.
Encode ==
    /\ cpc = "encode"
    /\ encoded' = Encoder(ident.fn, ident.arg)
    /\ cpc' = "decode"
    /\ UNCHANGED <<ident, decoded>>

\* decode_id is called on the encoder's result.
Decode ==
    /\ cpc = "decode"
    /\ decoded' = decode_id(encoded)
    /\ cpc' = "done"
    /\ UNCHANGED <<ident, encoded>>

(***************************************************************************)
(* @lru_cache(maxsize=1) on the two encoders (lines 115 and 124): one      *)
(* cache per decorated function, the lookup and the update each done under *)
(* the cache's lock, the wrapped function called outside it.               *)
(***************************************************************************)
NumThreads == 2

Threads == 1..NumThreads
CacheIds == {<<1>>, <<2591, 0>>}
CodecNames == {"span", "trace"}

NoEntry == [full |-> FALSE, key |-> <<>>, result |-> <<>>]
Entry(k, r) == [full |-> TRUE, key |-> k, result |-> r]
IdleThread == [pc |-> "idle", fn |-> "span", arg |-> <<>>, res |-> <<>>]

\* A lookup that takes whatever the single slot holds.
AnyEntryHit(entry, k) == entry.full

\* cache_get(key): the slot holds an entry made for this very key.
CacheHit(entry, k) == entry.full /\ entry.key = k

CacheIdle ==
    /\ lru = [f \in CodecNames |-> NoEntry]
    /\ thr = <<>>

InitCache ==
    /\ lru = [f \in CodecNames |-> NoEntry]
    /\ thr = [t \in Threads |-> IdleThread]

\* A thread calls encode_span_id or encode_trace_id.
CallEncoder(t) ==
    /\ thr[t].pc = "idle"
    /\ \E f \in CodecNames, x \in CacheIds :
          thr' = [thr EXCEPT ![t] = [pc |-> "lookup", fn |-> f, arg |-> x, res |-> <<>>]]
    /\ UNCHANGED lru

\* Under the lock: a hit returns the stored result, a miss goes on to compute.
CacheLookup(t) ==
    /\ thr[t].pc = "lookup"
    /\ IF CacheHit(lru[thr[t].fn], thr[t].arg)
       THEN thr' = [thr EXCEPT ![t].pc = "returned", ![t].res = lru[thr[t].fn].result]
       ELSE thr' = [thr EXCEPT ![t].pc = "compute"]
    /\ UNCHANGED lru

\* Outside the lock: the wrapped function runs on the thread's own argument.
CacheCompute(t) ==
    /\ thr[t].pc = "compute"
    /\ thr' = [thr EXCEPT ![t].pc = "store", ![t].res = Encoder(thr[t].fn, thr[t].arg)]
    /\ UNCHANGED lru

\* Under the lock: the key is already there (another thread stored it), or the
\* single slot is reused for this key and result.
CacheStore(t) ==
    /\ thr[t].pc = "store"
    /\ IF CacheHit(lru[thr[t].fn], thr[t].arg)
       THEN UNCHANGED lru
       ELSE lru' = [lru EXCEPT ![thr[t].fn] = Entry(thr[t].arg, thr[t].res)]
    /\ thr' = [thr EXCEPT ![t].pc = "returned"]

\* The caller has its result and may call again.
CallerResumes(t) ==
    /\ thr[t].pc = "returned"
    /\ thr' = [thr EXCEPT ![t] = IdleThread]
    /\ UNCHANGED lru

(***************************************************************************)
(* get_otel_attribute.                                                     *)
(***************************************************************************)
MaxTextLen == 3

PyNone == [t |-> "None", v |-> <<>>]
PyStr(text) == [t |-> "str", v |-> text]
PyInt(n) == [t |-> "int", v |-> <<n>>]
PyBool(b) == [t |-> "bool", v |-> <<b>>]

JsonAlphabet == {"0", "1", "-", "\"", "a", " "}
JsonLiterals == {<<"n", "u", "l", "l">>, <<"t", "r", "u", "e">>, <<"f", "a", "l", "s", "e">>,
                 <<" ", "n", "u", "l", "l">>}

\* The texts an attribute may hold.
Texts == UNION {[1..n -> JsonAlphabet] : n \in 0..MaxTextLen} \cup JsonLiterals

AttrKeys == {"k1", "k2"}

RECURSIVE StripTrailing(_, _)
StripTrailing(s, z) ==
    IF s # <<>> /\ s[Len(s)] = z THEN StripTrailing(SubSeq(s, 1, Len(s) - 1), z) ELSE s

IsDecDigit(c) == c \in {"0", "1", "2", "3", "4", "5", "6", "7", "8", "9"}
DecValue(c) == CHOOSE d \in 0..9 : DecDigit(d) = c

RECURSIVE DecNumber(_)
DecNumber(s) == IF s = <<>> THEN 0 ELSE DecNumber(SubSeq(s, 1, Len(s) - 1)) * 10 + DecValue(s[Len(s)])

\* The integer part of a JSON number: 0, or digits that do not start with 0.
IsJsonInt(s) ==
    /\ s # <<>>
    /\ \A i \in DOMAIN s : IsDecDigit(s[i])
    /\ (s[1] = "0" => Len(s) = 1)

JsonError == [ok |-> FALSE, exc |-> "JSONDecodeError", val |-> PyNone]
JsonValue(v) == [ok |-> TRUE, exc |-> None, val |-> v]

\* json.loads(text) for a str, over the texts of Texts: white space around one
\* value, which is a literal, an integer or a string without escapes; anything
\* else, and anything left after the value, is a JSONDecodeError.
JsonLoads(text) ==
    LET body == StripTrailing(StripLeading(text, " "), " ")
    IN IF body = <<"n", "u", "l", "l">> THEN JsonValue(PyNone)
       ELSE IF body = <<"t", "r", "u", "e">> THEN JsonValue(PyBool(TRUE))
       ELSE IF body = <<"f", "a", "l", "s", "e">> THEN JsonValue(PyBool(FALSE))
       ELSE IF IsJsonInt(body) THEN JsonValue(PyInt(DecNumber(body)))
       ELSE IF Len(body) >= 2 /\ body[1] = "-" /\ IsJsonInt(Tail(body))
            THEN JsonValue(PyInt(0 - DecNumber(Tail(body))))
       ELSE IF /\ Len(body) >= 2
               /\ body[1] = "\"" /\ body[Len(body)] = "\""
               /\ \A i \in 2..(Len(body) - 1) : body[i] # "\""
            THEN JsonValue(PyStr(SubSeq(body, 2, Len(body) - 1)))
       ELSE JsonError

\* json.loads(value): a value that is not str, bytes or bytearray is a TypeError.
Loads(value) ==
    IF value.t = "str" THEN JsonLoads(value.v)
    ELSE [ok |-> FALSE, exc |-> "TypeError", val |-> PyNone]

\* span.attributes.get(key)
AttributesGet(attrs, k) == IF k \in DOMAIN attrs THEN PyStr(attrs[k]) ELSE PyNone

\* `except ValueError`: the decode error only.
CaughtIfValueError(exc) == exc \in {"ValueError", "JSONDecodeError"}

\* Line 191: `except Exception`.
Caught(exc) == exc \in {"Exception", "TypeError", "ValueError", "JSONDecodeError"}

AttrPending(value) == [kind |-> "pending", val |-> value, exc |-> None, logged |-> FALSE]

AttrIdle ==
    /\ attributes = <<>>
    /\ key = None
    /\ apc = "idle"
    /\ aout = AttrPending(PyNone)

InitAttrCall ==
    /\ attributes \in UNION {[d -> Texts] : d \in {{}, {"k1"}}}
    /\ key \in AttrKeys
    /\ apc = "get"
    /\ aout = AttrPending(PyNone)

\* Line 190, the argument: span.attributes.get(key).
AttrGet ==
    /\ apc = "get"
    /\ aout' = AttrPending(AttributesGet(attributes, key))
    /\ apc' = "loads"
    /\ UNCHANGED <<attributes, key>>

\* Line 190: json.loads of it returns the decoded value, or raises.
AttrLoads ==
    /\ apc = "loads"
    /\ LET r == Loads(aout.val)
       IN IF r.ok
          THEN /\ aout' = [kind |-> "return", val |-> r.val, exc |-> None, logged |-> FALSE]
               /\ apc' = "done"
          ELSE /\ aout' = [aout EXCEPT !.exc = r.exc]
               /\ apc' = "except"
    /\ UNCHANGED <<attributes, key>>

\* Lines 191-192: a caught error is logged at debug level and the function
\* falls off its end, returning None; any other error propagates.
AttrExcept ==
    /\ apc = "except"
    /\ IF Caught(aout.exc)
       THEN aout' = [kind |-> "return", val |-> PyNone, exc |-> None, logged |-> TRUE]
       ELSE aout' = [kind |-> "raise", val |-> PyNone, exc |-> aout.exc, logged |-> FALSE]
    /\ apc' = "done"
    /\ UNCHANGED <<attributes, key>>

(***************************************************************************)
(* maybe_get_request_id / maybe_get_dependencies_schemas.                  *)
(***************************************************************************)
RequestIds == {None, "", "tr-1"}
Schemas == {None, "schemas"}

NoContext == <<>>
Contexts ==
    {NoContext} \cup
    {<<c>> : c \in [is_evaluate : BOOLEAN, request_id : RequestIds,
                    dependencies_schemas : Schemas]}

\* Python truthiness of a str-or-None.
Truthy(v) == v # None /\ v # ""

\* Lines 195-203: None when mlflow.pyfunc.context cannot be imported.
TryGetPredictionContext(importable, ctx) == IF importable THEN ctx ELSE NoContext

\* Line 209: `not context or (is_evaluate and not context.is_evaluate)`.
NoRequestId(ctx, is_evaluate) ==
    ctx = NoContext \/ (is_evaluate /\ ~ctx[1].is_evaluate)

\* The check without the caller's flag: `if not context.request_id`.
MissingRequestIdAnyCaller(ctx, is_evaluate) == ~Truthy(ctx[1].request_id)

\* Line 212: `not context.request_id and is_evaluate`.
MissingRequestId(ctx, is_evaluate) == ~Truthy(ctx[1].request_id) /\ is_evaluate

Pending(ctx) == [kind |-> "pending", val |-> None, ctx |-> ctx]

ContextIdle ==
    /\ context = NoContext
    /\ pyfunc = FALSE
    /\ call = None
    /\ xpc = "idle"
    /\ xout = Pending(NoContext)

\* The ambient context lives in mlflow.pyfunc.context: there is none to set where
\* that module cannot be imported.
InitContextCall ==
    /\ pyfunc \in BOOLEAN
    /\ context \in {c \in Contexts : ~pyfunc => c = NoContext}
    /\ call \in [fn : {"maybe_get_request_id", "maybe_get_dependencies_schemas"},
                 is_evaluate : BOOLEAN]
    /\ xpc = "context"
    /\ xout = Pending(NoContext)

\* Lines 208 and 223: context = _try_get_prediction_context().
TryGetContext ==
    /\ xpc = "context"
    /\ xout' = Pending(TryGetPredictionContext(pyfunc, context))
    /\ xpc' = "check"
    /\ UNCHANGED <<context, pyfunc, call>>

\* Lines 209-219.
MaybeGetRequestId ==
    /\ xpc = "check"
    /\ call.fn = "maybe_get_request_id"
    /\ IF NoRequestId(xout.ctx, call.is_evaluate)
       THEN xout' = [xout EXCEPT !.kind = "return", !.val = None]
       ELSE IF MissingRequestId(xout.ctx, call.is_evaluate)
            THEN xout' = [xout EXCEPT !.kind = "raise", !.val = "BAD_REQUEST"]
            ELSE xout' = [xout EXCEPT !.kind = "return", !.val = xout.ctx[1].request_id]
    /\ xpc' = "done"
    /\ UNCHANGED <<context, pyfunc, call>>

\* Lines 224-225: the context's schemas, or None by falling off the end.
MaybeGetDependenciesSchemas ==
    /\ xpc = "check"
    /\ call.fn = "maybe_get_dependencies_schemas"
    /\ IF xout.ctx # NoContext
       THEN xout' = [xout EXCEPT !.kind = "return", !.val = xout.ctx[1].dependencies_schemas]
       ELSE xout' = [xout EXCEPT !.kind = "return", !.val = None]
    /\ xpc' = "done"
    /\ UNCHANGED <<context, pyfunc, call>>

(***************************************************************************)
(* The specifications.                                                     *)
(***************************************************************************)
InitDedup ==
    InitDedupCall /\ EncoderIdle /\ CodecIdle /\ CacheIdle /\ AttrIdle /\ ContextIdle

NextDedup ==
    \/ CountNames /\ UNCHANGED <<encVars, codecVars, cacheVars, attrVars, ctxVars>>
    \/ RenameSpan /\ UNCHANGED <<encVars, codecVars, cacheVars, attrVars, ctxVars>>
    \/ DedupReturn /\ UNCHANGED <<encVars, codecVars, cacheVars, attrVars, ctxVars>>

SpecDedup == InitDedup /\ [][NextDedup]_vars

InitEncoder ==
    DedupIdle /\ InitEncoderCall /\ CodecIdle /\ CacheIdle /\ AttrIdle /\ ContextIdle

NextEncoder ==
    \/ LangChainRule /\ UNCHANGED <<dedupVars, codecVars, cacheVars, attrVars, ctxVars>>
    \/ PydanticRule /\ UNCHANGED <<dedupVars, codecVars, cacheVars, attrVars, ctxVars>>
    \/ DataclassRule /\ UNCHANGED <<dedupVars, codecVars, cacheVars, attrVars, ctxVars>>
    \/ SafetyGate /\ UNCHANGED <<dedupVars, codecVars, cacheVars, attrVars, ctxVars>>
    \/ StringFallback /\ UNCHANGED <<dedupVars, codecVars, cacheVars, attrVars, ctxVars>>

SpecEncoder == InitEncoder /\ [][NextEncoder]_vars

InitCodec ==
    DedupIdle /\ EncoderIdle /\ InitCodecCall /\ CacheIdle /\ AttrIdle /\ ContextIdle

NextCodec ==
    \/ Encode /\ UNCHANGED <<dedupVars, encVars, cacheVars, attrVars, ctxVars>>
    \/ Decode /\ UNCHANGED <<dedupVars, encVars, cacheVars, attrVars, ctxVars>>

SpecCodec == InitCodec /\ [][NextCodec]_vars

InitCacheSpec ==
    DedupIdle /\ EncoderIdle /\ CodecIdle /\ InitCache /\ AttrIdle /\ ContextIdle

NextCache ==
    \E t \in Threads :
        \/ CallEncoder(t) /\ UNCHANGED <<dedupVars, encVars, codecVars, attrVars, ctxVars>>
        \/ CacheLookup(t) /\ UNCHANGED <<dedupVars, encVars, codecVars, attrVars, ctxVars>>
        \/ CacheCompute(t) /\ UNCHANGED <<dedupVars, encVars, codecVars, attrVars, ctxVars>>
        \/ CacheStore(t) /\ UNCHANGED <<dedupVars, encVars, codecVars, attrVars, ctxVars>>
        \/ CallerResumes(t) /\ UNCHANGED <<dedupVars, encVars, codecVars, attrVars, ctxVars>>

SpecCache == InitCacheSpec /\ [][NextCache]_vars

InitAttr ==
    DedupIdle /\ EncoderIdle /\ CodecIdle /\ CacheIdle /\ InitAttrCall /\ ContextIdle

NextAttr ==
    \/ AttrGet /\ UNCHANGED <<dedupVars, encVars, codecVars, cacheVars, ctxVars>>
    \/ AttrLoads /\ UNCHANGED <<dedupVars, encVars, codecVars, cacheVars, ctxVars>>
    \/ AttrExcept /\ UNCHANGED <<dedupVars, encVars, codecVars, cacheVars, ctxVars>>

SpecAttr == InitAttr /\ [][NextAttr]_vars

InitContext ==
    DedupIdle /\ EncoderIdle /\ CodecIdle /\ CacheIdle /\ AttrIdle /\ InitContextCall

NextContext ==
    \/ TryGetContext /\ UNCHANGED <<dedupVars, encVars, codecVars, cacheVars, attrVars>>
    \/ MaybeGetRequestId /\ UNCHANGED <<dedupVars, encVars, codecVars, cacheVars, attrVars>>
    \/ MaybeGetDependenciesSchemas /\ UNCHANGED <<dedupVars, encVars, codecVars, cacheVars, attrVars>>

SpecContext == InitContext /\ [][NextContext]_vars

(***************************************************************************)
(* Properties of deduplicate_span_names_in_place (SpecDedup).              *)
(***************************************************************************)
\* The number of the occurrence of names[i] at position i, counting from 1.
Occurrence(names, i) == Cardinality({j \in 1..i : names[j] = names[i]})

\* C1: after the call returns, no two spans of the batch share a name.
C1_AllNamesUnique ==
    dpc = "done" =>
        \A i, j \in DOMAIN spans : i # j => spans[i] # spans[j]

\* C5: after the call returns, the k-th span (k from 1, in sequence order) that
\* was named n, for a name n that occurred more than once, is named n_k; so the
\* occurrences of n are named n_1 .. n_c and none keeps the bare name.
C5_DuplicatesIndexedInOrder ==
    dpc = "done" =>
        /\ Len(spans) = Len(original)
        /\ \A i \in DOMAIN original :
              Count(original, original[i]) > 1 =>
                  /\ spans[i] = original[i] \o <<"_">> \o Str(Occurrence(original, i))
                  /\ spans[i] # original[i]

\* The call has returned on a batch with a duplicated name n that also held a
\* span already named n_1.
C5_Witness ==
    /\ dpc = "done"
    /\ \E i, j, k \in DOMAIN original :
          /\ i < j
          /\ original[i] = original[j]
          /\ original[k] = original[i] \o <<"_", "1">>

\* C6: at every point of the call, a span whose name occurred exactly once in
\* the input still has that name; with no duplicated name (and for the empty
\* batch) the batch is as it was, and the call goes on to return.
C6_UniqueNamesUntouched ==
    dpc # "idle" =>
        /\ Len(spans) = Len(original)
        /\ \A i \in DOMAIN original :
              Count(original, original[i]) = 1 => spans[i] = original[i]
        /\ (\A i \in DOMAIN original : Count(original, original[i]) = 1) => spans = original
        /\ dpc \in {"start", "loop", "done"}

\* The call has returned on a batch that held a duplicated name and a name that
\* occurred once.
C6_Witness ==
    /\ dpc = "done"
    /\ \E i, j \in DOMAIN original :
          /\ Count(original, original[i]) = 1
          /\ Count(original, original[j]) > 1

(***************************************************************************)
(* Properties of TraceJSONEncoder.default (SpecEncoder).                   *)
(***************************************************************************)
\* C2: default never raises: whatever libraries are installed and however the
\* export method or asdict ends, the call ends by returning a value.
C2_DefaultNeverRaises ==
    epc = "done" => eresult.kind # "raise"

\* No earlier rule of the chain ends the call for this value: rules 1 to 3 do
\* not apply to it, or the error they end with is the one their handler passes on.
ReachesSafetyGate(l, o) ==
    /\ IsLegacyLangChainModel(l, o) => o.export = "ImportError"
    /\ IsPydanticModel(l, o) => o.export = "ImportError"
    /\ o.dataclass => o.asdict = "TypeError"

\* C3 as stated: whenever default returns for a value of an unsafe type, a
\* dataclass or a model instance included, it returns the type of the value.
C3_UnsafeAlwaysTypeName ==
    (epc = "done" /\ obj.unsafe /\ eresult.kind # "raise") => eresult = Returned("type")

\* C3 as amended: for a value of an unsafe type, default never returns the
\* string form of the value, and it returns the type of the value whenever no
\* earlier rule of the chain has ended the call.
C3_UnsafeTypeNameAtGate ==
    (epc = "done" /\ obj.unsafe) =>
        /\ eresult.kind # "str"
        /\ ReachesSafetyGate(libs, obj) => eresult = Returned("type")

\* default has returned the type for a streaming response that is a dataclass
\* whose asdict failed with TypeError.
C3_Witness ==
    /\ epc = "done"
    /\ obj.unsafe /\ obj.dataclass /\ obj.asdict = "TypeError"
    /\ eresult = Returned("type")

(***************************************************************************)
(* Properties of the context accessors (SpecContext).                      *)
(***************************************************************************)
\* The accessor got a context whose is_evaluate is true and whose request_id is None.
EvaluateWithoutRequestId ==
    /\ xout.ctx # NoContext
    /\ xout.ctx[1].is_evaluate
    /\ xout.ctx[1].request_id = None

\* C4 as stated: both accessors raise BAD_REQUEST whenever the context exists
\* with is_evaluate true and no request_id, whatever the caller's is_evaluate.
C4_RaisesForEveryCaller ==
    (xpc = "done" /\ EvaluateWithoutRequestId) =>
        (xout.kind = "raise" /\ xout.val = "BAD_REQUEST")

\* C4 as amended: on such a context maybe_get_request_id raises BAD_REQUEST
\* when the caller's is_evaluate is true and returns None when it is false;
\* maybe_get_dependencies_schemas returns the context's dependencies_schemas.
C4_RaisesOnlyForEvaluateCaller ==
    (xpc = "done" /\ EvaluateWithoutRequestId) =>
        IF call.fn = "maybe_get_request_id"
        THEN IF call.is_evaluate
             THEN xout.kind = "raise" /\ xout.val = "BAD_REQUEST"
             ELSE xout.kind = "return" /\ xout.val = None
        ELSE xout.kind = "return" /\ xout.val = xout.ctx[1].dependencies_schemas

\* maybe_get_request_id(is_evaluate=True) has raised on such a context.
C4_Witness ==
    /\ xpc = "done"
    /\ EvaluateWithoutRequestId
    /\ call.fn = "maybe_get_request_id" /\ call.is_evaluate
    /\ xout.kind = "raise"

(***************************************************************************)
(* Properties of the identifier codec (SpecCodec).                         *)
(***************************************************************************)
\* C7: decode_id of the encoding of a 64-bit span id, or of a 128-bit trace id,
\* is the identifier itself.
C7_RoundTrip ==
    cpc = "done" => (decoded.ok /\ decoded.val = ident.arg)

\* A full-width span id whose leading hexadecimal digit is zero has made the round trip.
C7_Witness ==
    /\ cpc = "done"
    /\ ident.fn = "span"
    /\ Len(ident.arg) * Len(LimbHex(0)) = SpanIdHexWidth
    /\ ident.arg[1] = 2591

LowerHexSet == {HexChars[i] : i \in DOMAIN HexChars}

\* C10: the encoding of a span id is "0x" and exactly 16 lowercase hexadecimal
\* digits, that of a trace id "0x" and exactly 32.
C10_EncodedFormat ==
    cpc \in {"decode", "done"} =>
        /\ Len(encoded) = 2 + (IF ident.fn = "span" THEN SpanIdHexWidth ELSE TraceIdHexWidth)
        /\ encoded[1] = "0" /\ encoded[2] = "x"
        /\ \A i \in 3..Len(encoded) : encoded[i] \in LowerHexSet

\* A trace id that fits one limb, so nearly all of its digits are padding, has
\* been encoded.
C10_Witness ==
    /\ cpc = "decode"
    /\ ident.fn = "trace"
    /\ Len(ident.arg) = 1

(***************************************************************************)
(* Properties of the memo cache (SpecCache).                               *)
(***************************************************************************)
\* C8: every call of an encoder, from whichever thread and whatever the other
\* calls are, returns the encoding of its own argument, as the uncached encoder
\* would; and the cache only ever holds a key with that key's encoding.
C8_CacheTransparent ==
    /\ \A t \in Threads :
          thr[t].pc = "returned" => thr[t].res = Encoder(thr[t].fn, thr[t].arg)
    /\ \A f \in CodecNames :
          lru[f].full => lru[f].result = Encoder(f, lru[f].key)

\* A call has returned while the cache of its encoder holds the entry of a
\* different identifier, stored by another thread in the meantime.
C8_Witness ==
    \E t \in Threads :
        /\ thr[t].pc = "returned"
        /\ lru[thr[t].fn].full
        /\ lru[thr[t].fn].key # thr[t].arg

(***************************************************************************)
(* Properties of get_otel_attribute (SpecAttr).                            *)
(***************************************************************************)
\* C9: get_otel_attribute never raises; it returns None when the key is not in
\* the attribute map and when the stored text is not valid JSON, and the
\* decoded value when it is.
C9_AttributeNeverRaises ==
    apc = "done" =>
        /\ aout.kind = "return"
        /\ key \notin DOMAIN attributes => aout.val = PyNone
        /\ key \in DOMAIN attributes =>
              IF JsonLoads(attributes[key]).ok
              THEN aout.val = JsonLoads(attributes[key]).val /\ ~aout.logged
              ELSE aout.val = PyNone /\ aout.logged

\* The call has returned None for a key the span does not have.
C9_Witness ==
    /\ apc = "done"
    /\ key \notin DOMAIN attributes
    /\ attributes # <<>>
    /\ aout.kind = "return" /\ aout.val = PyNone

====
